---- MODULE Spec2Model ----
(***************************************************************************)
(* Model of cerebras_analyzer.py: the module configuration, shallow_clone, *)
(* collect_source_files, build_prompt, the response sanitizer and the      *)
(* analyze_repo / __main__ control flow.                                   *)
(*                                                                         *)
(* Strings are sequences of one-character strings; paths are sequences of  *)
(* components (pathlib's .parts).                                          *)
(***************************************************************************)
EXTENDS Integers, Sequences, FiniteSets, TLC

VARIABLES
    \* response sanitizer
    content,        \* result["choices"][0]["message"]["content"]
    clean_content,  \* the string handed to print() at line 203
    sanPc,          \* "in" before, "done" after lines 193-199
    \* collect_source_files
    root,           \* the parts of the directory that is walked
    files,          \* the list of files collected / handed to build_prompt
    walked,         \* number of entries root.rglob("*") has yielded
    denied,         \* a source file under a denylisted directory was yielded
    colPc,          \* "walk" inside the loop, "done" after the return
    \* build_prompt
    body,           \* the blocks appended to body
    promptPc,       \* "in" before, "done" after build_prompt
    \* one invocation of the script
    pc,             \* the statement the process is at
    argc,           \* len(sys.argv)
    api_key_set,    \* CEREBRAS_API_KEY is set and not empty
    max_tokens_ok,  \* CEREBRAS_MAX_TOKENS is unset or parses as an integer
    stdout,         \* the objects printed to standard output, in order
    stderr,         \* number of diagnostics written to standard error
    exit_code,      \* -1 while the process runs, then its exit status
    repo_path_set,  \* repo_path of analyze_repo is not None
    tmp_exists,     \* the clone directory tmp_dir exists on disk
    tmp_created,    \* tmp_dir.mkdir succeeded during this run
    mkdirs,         \* number of mkdir calls that succeeded (lines 37 and 40)
    rm_attempts,    \* number of shutil.rmtree calls on the clone directory
    rm_failed,      \* a shutil.rmtree call failed (and the error was ignored)
    exc,            \* the exception being propagated, "none" if there is none
    steps,          \* the pipeline steps started so far, in order
    failed_at,      \* the step at which the first failure happened, or "none"
    posts,          \* number of POST requests sent
    net             \* number of network operations (DNS lookup, clone, POST)

sanVars == <<content, clean_content, sanPc>>
colVars == <<root, files, walked, denied, colPc>>
promptVars == <<body, promptPc>>
runVars == <<pc, argc, api_key_set, max_tokens_ok, stdout, stderr, exit_code,
             repo_path_set, tmp_exists, tmp_created, mkdirs, rm_attempts,
             rm_failed, exc, steps, failed_at, posts, net>>
vars == <<sanVars, colVars, promptVars, runVars>>

(***************************************************************************)
(* Generic helpers                                                         *)
(***************************************************************************)
\* All sequences over S of length 0..n
SeqsUpTo(S, n) == UNION {[1..k -> S] : k \in 0..n}

Min(S) == CHOOSE x \in S : \A y \in S : x <= y
Max(S) == CHOOSE x \in S : \A y \in S : x >= y

(***************************************************************************)
(* Response sanitizer, analyze_repo lines 193-199                          *)
(***************************************************************************)
\* Longest response string enumerated
MaxLen == 6

\* The backquote character (a backquote cannot be written inside a TLA+ string)
BQ == "bq"

\* Characters the responses are built from: backquote, braces, text, whitespace
SanChars == {BQ, "{", "}", "a", " "}

IsSpace(c) == c = " "

\* str.strip(): drop leading and trailing whitespace
RECURSIVE lstrip(_)
lstrip(s) == IF s # <<>> /\ IsSpace(Head(s)) THEN lstrip(Tail(s)) ELSE s

RECURSIVE rstrip(_)
rstrip(s) ==
    IF s # <<>> /\ IsSpace(s[Len(s)]) THEN rstrip(SubSeq(s, 1, Len(s) - 1)) ELSE s

strip(s) == rstrip(lstrip(s))

\* line 194: str.startswith of three backquotes
startswith_fence(s) == Len(s) >= 3 /\ s[1] = BQ /\ s[2] = BQ /\ s[3] = BQ

\* str.find(c): 0-based index of the first occurrence, -1 when absent
RECURSIVE findFrom(_, _, _)
findFrom(s, c, i) ==
    IF i > Len(s) THEN -1
    ELSE IF s[i] = c THEN i - 1
    ELSE findFrom(s, c, i + 1)

find(s, c) == findFrom(s, c, 1)

\* str.rfind(c): 0-based index of the last occurrence, -1 when absent
RECURSIVE rfindFrom(_, _, _)
rfindFrom(s, c, i) ==
    IF i < 1 THEN -1
    ELSE IF s[i] = c THEN i - 1
    ELSE rfindFrom(s, c, i - 1)

rfind(s, c) == rfindFrom(s, c, Len(s))

\* Python slice s[a:b] for 0 <= a, 0 <= b (0-based, b exclusive, empty if b <= a)
slice(s, a, b) ==
    LET hi == IF b > Len(s) THEN Len(s) ELSE b
    IN  IF a >= hi THEN <<>> ELSE SubSeq(s, a + 1, hi)

\* Mutant of the brace test: only the opening brace is looked for
bracesFound_onlyStart(start, end) == start # -1

\* line 198: if start != -1 and end != -1
bracesFound(start, end) == start # -1 /\ end # -1

\* Mutant of the slice: the closing brace is dropped (end instead of end+1)
braceSlice_offByOne(s, start, end) == slice(s, start, end)

\* line 199: clean_content[start:end+1]
braceSlice(s, start, end) == slice(s, start, end + 1)

\* lines 193-199
sanitize(c) ==
    LET stripped == strip(c)
        start    == find(stripped, "{")
        end      == rfind(stripped, "}")
    IN  IF startswith_fence(stripped) /\ bracesFound(start, end)
        THEN braceSlice(stripped, start, end)
        ELSE stripped

(***************************************************************************)
(* Names used in the enumerated trees and paths, spelled as characters     *)
(***************************************************************************)
N_node_modules == <<"n", "o", "d", "e", "_", "m", "o", "d", "u", "l", "e", "s">>
N_git == <<".", "g", "i", "t">>
N_dist == <<"d", "i", "s", "t">>
N_build == <<"b", "u", "i", "l", "d">>
N_venv == <<"v", "e", "n", "v">>
N_pycache == <<"_", "_", "p", "y", "c", "a", "c", "h", "e", "_", "_">>
N_src == <<"s", "r", "c">>
N_Dist == <<"D", "i", "s", "t">>
N_home == <<"h", "o", "m", "e">>
N_root == <<"/">>
N_temp_clones == <<"t", "e", "m", "p", "_", "c", "l", "o", "n", "e", "s">>
N_a_py == <<"a", ".", "p", "y">>
N_A_PY == <<"A", ".", "P", "Y">>
N_a_txt == <<"a", ".", "t", "x", "t">>
N_dotpy == <<".", "p", "y">>
N_build_py == <<"b", "u", "i", "l", "d", ".", "p", "y">>
E_js == <<".", "j", "s">>
E_ts == <<".", "t", "s">>
E_jsx == <<".", "j", "s", "x">>
E_tsx == <<".", "t", "s", "x">>
E_py == <<".", "p", "y">>
E_java == <<".", "j", "a", "v", "a">>
E_go == <<".", "g", "o">>
E_c == <<".", "c">>
E_cpp == <<".", "c", "p", "p">>
N_cerebra_ui == <<"c", "e", "r", "e", "b", "r", "a", "-", "u", "i">>
N_cerebra_core == <<"c", "e", "r", "e", "b", "r", "a", "-", "c", "o", "r", "e">>
MARKER == <<"c", "e", "r", "e", "b", "r", "a", "-">>
TOKEN == <<"1", "f">>

UpperChars == <<"A", "B", "C", "D", "E", "F", "G", "H", "I", "J", "K", "L", "M",
                "N", "O", "P", "Q", "R", "S", "T", "U", "V", "W", "X", "Y", "Z">>
LowerChars == <<"a", "b", "c", "d", "e", "f", "g", "h", "i", "j", "k", "l", "m",
                "n", "o", "p", "q", "r", "s", "t", "u", "v", "w", "x", "y", "z">>

\* str.lower() on one character
lowerChar(c) ==
    IF \E i \in 1..26 : UpperChars[i] = c
    THEN LowerChars[CHOOSE i \in 1..26 : UpperChars[i] = c]
    ELSE c

\* str.lower()
lower(s) == [i \in 1..Len(s) |-> lowerChar(s[i])]

(***************************************************************************)
(* collect_source_files, lines 58-70                                       *)
(***************************************************************************)
\* line 58
SOURCE_EXTS == {E_js, E_ts, E_jsx, E_tsx, E_py, E_java, E_go, E_c, E_cpp}

\* line 63
skip_dirs == {N_node_modules, N_git, N_dist, N_build, N_venv, N_pycache}

\* PurePath.name: the last component
name(parts) == parts[Len(parts)]

\* PurePath.suffix: from the last dot of the name, unless that dot is the
\* first or the last character of the name
suffix(parts) ==
    LET n == name(parts)
        i == rfind(n, ".")
    IN  IF 0 < i /\ i < Len(n) - 1 THEN slice(n, i, Len(n)) ELSE <<>>

\* What the filesystem holds at a path
FsKinds == {"file", "dir", "link_to_file", "link_to_dir"}

\* Path.is_file(): a regular file, or a symbolic link that points to one
is_file(kind) == kind \in {"file", "link_to_file"}

\* Mutant of the denylist test: only the entry's own name is compared
in_skipped_dir_nameOnly(parts) == name(parts) \in skip_dirs

\* line 66: any(skip in p.parts for skip in skip_dirs)
in_skipped_dir(parts) == \E i \in 1..Len(parts) : parts[i] \in skip_dirs

\* line 68: p.is_file() and p.suffix.lower() in SOURCE_EXTS
is_source_file(p) == is_file(p.kind) /\ lower(suffix(p.parts)) \in SOURCE_EXTS

\* lines 66-69: one iteration of the loop over root.rglob("*")
collect_one(acc, p) ==
    IF in_skipped_dir(p.parts) THEN acc
    ELSE IF is_source_file(p) THEN Append(acc, p)
    ELSE acc

(***************************************************************************)
(* shallow_clone's directory naming, lines 36-39                           *)
(***************************************************************************)
\* lines 36 and 39: <cwd>/temp_clones/cerebra-<uuid4 hex>
tmp_dir_path(cwd, token) == cwd \o <<N_temp_clones, MARKER \o token>>

(***************************************************************************)
(* build_prompt, lines 93-124 (the body; the intro of lines 76-91 is a     *)
(* fixed text that no file can change)                                     *)
(***************************************************************************)
\* line 93
max_chars == 30000

\* line 117
snippet_cap == 3000

\* sub in s (substring test)
contains(s, sub) ==
    \E i \in 0..(Len(s) - Len(sub)) : SubSeq(s, i + 1, i + Len(sub)) = sub

\* lines 100-104: index after the first component containing "cerebra-", or -1
RECURSIVE start_idx_from(_, _)
start_idx_from(parts, i) ==
    IF i > Len(parts) THEN -1
    ELSE IF contains(parts[i], MARKER) THEN i
    ELSE start_idx_from(parts, i + 1)

\* lines 99-110: the display path, as the components of rel
display_path(parts) ==
    LET start_idx == start_idx_from(parts, 1)
    IN  IF start_idx # -1
        THEN SubSeq(parts, start_idx + 1, Len(parts))
        ELSE <<name(parts)>>

\* Sum of the lengths of the components of a path
RECURSIVE sum_len(_)
sum_len(parts) == IF parts = <<>> THEN 0 ELSE Len(Head(parts)) + sum_len(Tail(parts))

\* len(str(rel)): the components joined by one separator; Path() prints as "."
str_len(rel) == IF rel = <<>> THEN 1 ELSE sum_len(rel) + (Len(rel) - 1)

\* line 117: len(content[:3000])
snippet_len(clen) == IF clen > snippet_cap THEN snippet_cap ELSE clen

\* line 118: len("\n--- FILE: " + rel + " ---\n" + snippet + "\n")
part_len(rel, clen) == 11 + str_len(rel) + 5 + snippet_len(clen) + 1

\* len(body): the blocks appended so far
RECURSIVE body_len(_)
body_len(b) == IF b = <<>> THEN 0 ELSE Head(b).len + body_len(Tail(b))

\* Mutant of the budget test: the block is appended before the length is tested
over_budget_afterAppend(b, plen) == body_len(b) > max_chars

\* line 119: len(body) + len(part) > max_chars
over_budget(b, plen) == body_len(b) + plen > max_chars

\* lines 95-122: the loop over the candidate files, from file i on.  A block
\* records the candidate it came from, its display path and its length.
RECURSIVE build_body_from(_, _, _)
build_body_from(fs, i, b) ==
    IF i > Len(fs) THEN b
    ELSE LET f    == fs[i]
             rel  == display_path(f.parts)
             part == [idx |-> i, rel |-> rel, len |-> part_len(rel, f.clen)]
         IN  IF ~f.readable THEN build_body_from(fs, i + 1, b)
             ELSE IF over_budget(b, part.len) THEN b
             ELSE build_body_from(fs, i + 1, Append(b, part))

\* lines 94-124
build_body(fs) == build_body_from(fs, 1, <<>>)



(***************************************************************************)
(* Module configuration, __main__ and analyze_repo: the decisions          *)
(***************************************************************************)
\* line 27
KEY_ERROR == "CEREBRAS_API_KEY not set in environment"

\* line 220
USAGE_ERROR == "Usage: python cerebras_analyzer.py <repo_url> <branch> [prefix]"

\* print(json.dumps({"error": msg}))
ErrorObj(msg) == [kind |-> "error", error |-> msg]

\* print(clean_content)
AnswerObj(text) == [kind |-> "answer", text |-> text]

\* lines 24-28: int() of CEREBRAS_MAX_TOKENS raises ValueError at line 24,
\* before the key is looked at; then the key test of line 26
config_outcome(key_set, tokens_ok) ==
    IF ~tokens_ok THEN "value_error"
    ELSE IF ~key_set THEN "no_key"
    ELSE "ok"

\* line 219
args_missing(n) == n < 3

\* Mutant: a failed clone is attempted again
after_clone_failure_retry == "clone"

\* lines 50-52 and 206: the RuntimeError leaves shallow_clone and is caught
\* by the handler of analyze_repo
after_clone_failure == "except"

\* Mutant: the finally block removes nothing
finally_removes_never(path_set, exists) == FALSE

\* line 213: if repo_path and repo_path.exists()
finally_removes(path_set, exists) == path_set /\ exists

\* lines 60-70: the whole walk, entries given relative to the root r
RECURSIVE collect_from(_, _, _)
collect_from(r, walk, acc) ==
    IF walk = <<>> THEN acc
    ELSE LET e == Head(walk)
             p == [parts |-> r \o e.rel, kind |-> e.kind,
                   readable |-> e.readable, clen |-> e.clen]
         IN  collect_from(r, Tail(walk), collect_one(acc, p))

collect_source_files(r, walk) == collect_from(r, walk, <<>>)

(***************************************************************************)
(* Values of the variables a specification does not use                    *)
(***************************************************************************)
SanIdle == content = <<>> /\ clean_content = <<>> /\ sanPc = "idle"

ColIdle == root = <<>> /\ files = <<>> /\ walked = 0 /\ denied = FALSE /\ colPc = "idle"

PromptIdle == body = <<>> /\ promptPc = "idle"

RunIdle ==
    /\ pc = "idle" /\ argc = 0 /\ api_key_set = FALSE /\ max_tokens_ok = FALSE
    /\ stdout = <<>> /\ stderr = 0 /\ exit_code = -1
    /\ repo_path_set = FALSE /\ tmp_exists = FALSE /\ tmp_created = FALSE
    /\ mkdirs = 0
    /\ rm_attempts = 0 /\ rm_failed = FALSE
    /\ exc = "none" /\ steps = <<>> /\ failed_at = "none" /\ posts = 0 /\ net = 0

(***************************************************************************)
(* The sanitizer applied to every response up to MaxLen characters         *)
(***************************************************************************)
SanInit ==
    /\ content \in SeqsUpTo(SanChars, MaxLen)
    /\ clean_content = <<>>
    /\ sanPc = "in"
    /\ ColIdle /\ PromptIdle /\ RunIdle

Sanitize ==
    /\ sanPc = "in"
    /\ clean_content' = sanitize(content)
    /\ sanPc' = "done"
    /\ UNCHANGED <<content, colVars, promptVars, runVars>>

SanNext == Sanitize

SpecSanitize == SanInit /\ [][SanNext]_vars

(***************************************************************************)
(* collect_source_files over the entries a walk can yield                  *)
(***************************************************************************)
\* Number of entries the walk yields
MaxEntries == 2

\* The clone directory of a run started in /home
PlainRoot == tmp_dir_path(<<N_root, N_home>>, TOKEN)

\* Roots walked: the plain one, and one below a directory named "build"
Roots == {PlainRoot, tmp_dir_path(<<N_root, N_build>>, TOKEN)}

\* Directories below the root, as paths relative to it
RelDirs ==
    {<<>>, <<N_src>>, <<N_node_modules>>, <<N_Dist>>, <<N_src, N_src>>,
     <<N_src, N_node_modules>>, <<N_node_modules, N_src>>, <<N_src, N_git>>}

\* Names of the entries in those directories
EntryNames == {N_a_py, N_A_PY, N_a_txt, N_dotpy, N_dist, N_build_py}

CollectInit ==
    /\ root \in Roots
    /\ files = <<>>
    /\ walked = 0
    /\ denied = FALSE
    /\ colPc = "walk"
    /\ SanIdle /\ PromptIdle /\ RunIdle

\* lines 65-69: rglob yields one more entry
CollectVisit ==
    /\ colPc = "walk"
    /\ walked < MaxEntries
    /\ \E d \in RelDirs, n \in EntryNames, k \in FsKinds :
         LET p == [parts |-> root \o d \o <<n>>, kind |-> k]
         IN  /\ files' = collect_one(files, p)
             /\ denied' = (denied \/ (in_skipped_dir(p.parts) /\ is_source_file(p)))
    /\ walked' = walked + 1
    /\ UNCHANGED <<root, colPc, sanVars, promptVars, runVars>>

\* line 70: the walk is exhausted
CollectReturn ==
    /\ colPc = "walk"
    /\ colPc' = "done"
    /\ UNCHANGED <<root, files, walked, denied, sanVars, promptVars, runVars>>

CollectNext == CollectVisit \/ CollectReturn

SpecCollect == CollectInit /\ [][CollectNext]_vars

(***************************************************************************)
(* build_prompt over candidate lists                                       *)
(***************************************************************************)
\* Number of full-size files a candidate list starts with
MaxBig == 9

\* Number of candidates after them, each of any size, readable or not
MaxTail == 3

\* A readable file longer than the per-file cap, at <root>/a.py
BigFile == [parts |-> PlainRoot \o <<N_a_py>>, kind |-> "file", readable |-> TRUE, clen |-> 5000]

\* Candidates that differ in size and readability: with 9 full blocks in the
\* body (9 * 3021 characters), a 2790-character file fills the budget exactly
SizedFiles ==
    {BigFile,
     [parts |-> PlainRoot \o <<N_a_py>>, kind |-> "file", readable |-> TRUE, clen |-> 2790],
     [parts |-> PlainRoot \o <<N_a_py>>, kind |-> "file", readable |-> FALSE, clen |-> 0]}

\* Candidate lists: up to MaxBig full-size files, then up to MaxTail free ones
SizedLists ==
    {[i \in 1..k |-> BigFile] \o t : k \in 0..MaxBig, t \in SeqsUpTo(SizedFiles, MaxTail)}

\* Working directories a run is started in
Cwds ==
    {<<N_root>>, <<N_root, N_home>>, <<N_root, N_cerebra_ui>>,
     <<N_root, N_home, N_cerebra_ui>>, <<N_root, N_cerebra_ui, N_home>>}

\* Files of a clone, relative to its root
RelFiles == {<<N_a_py>>, <<N_src, N_a_py>>, <<N_cerebra_core, N_a_py>>, <<N_src, N_src, N_A_PY>>}

PromptInit ==
    /\ \/ /\ root = PlainRoot
          /\ files \in SizedLists
       \/ /\ root \in {tmp_dir_path(c, TOKEN) : c \in Cwds}
          /\ files \in SeqsUpTo({[parts |-> root \o rel, kind |-> "file",
                                  readable |-> TRUE, clen |-> 10] : rel \in RelFiles}, 2)
    /\ body = <<>>
    /\ promptPc = "in"
    /\ walked = 0 /\ denied = FALSE /\ colPc = "idle"
    /\ SanIdle /\ RunIdle

BuildPrompt ==
    /\ promptPc = "in"
    /\ body' = build_body(files)
    /\ promptPc' = "done"
    /\ UNCHANGED <<sanVars, colVars, runVars>>

PromptNext == BuildPrompt

SpecPrompt == PromptInit /\ [][PromptNext]_vars

(***************************************************************************)
(* One invocation of the script                                            *)
(***************************************************************************)
\* The working directory of the run
RunCwd == <<N_root, N_home>>

\* What the clone holds, in the order the walk yields it
RunWalks ==
    {<<>>,
     <<[rel |-> <<N_src, N_a_py>>, kind |-> "file", readable |-> TRUE, clen |-> 40],
       [rel |-> <<N_node_modules, N_a_py>>, kind |-> "file", readable |-> TRUE, clen |-> 40],
       [rel |-> <<N_A_PY>>, kind |-> "file", readable |-> FALSE, clen |-> 0]>>}

\* What the model answers: a bare object, a fenced object, a fence with the
\* braces the wrong way round
RunResponses ==
    {<<"{", "}">>,
     <<BQ, BQ, BQ, " ", "{", "}", " ", BQ, BQ, BQ>>,
     <<BQ, BQ, BQ, "}", "{">>}

RunInit ==
    /\ pc = "load"
    /\ argc \in 1..4
    /\ api_key_set \in BOOLEAN
    /\ max_tokens_ok \in BOOLEAN
    /\ stdout = <<>> /\ stderr = 0 /\ exit_code = -1
    /\ repo_path_set = FALSE /\ tmp_exists = FALSE /\ tmp_created = FALSE
    /\ mkdirs = 0
    /\ rm_attempts = 0 /\ rm_failed = FALSE
    /\ exc = "none" /\ steps = <<>> /\ failed_at = "none" /\ posts = 0 /\ net = 0
    /\ root = <<>> /\ files = <<>> /\ body = <<>>
    /\ content = <<>> /\ clean_content = <<>>
    /\ sanPc = "idle" /\ walked = 0 /\ denied = FALSE /\ colPc = "idle"
    /\ promptPc = "idle"

\* Variables of the other specifications that a run never writes
runUnused == <<sanPc, walked, denied, colPc, promptPc>>

\* lines 16-28: the module is loaded
LoadConfig ==
    /\ pc = "load"
    /\ LET o == config_outcome(api_key_set, max_tokens_ok)
       IN  /\ pc' = IF o = "ok" THEN "main" ELSE "done"
           /\ exit_code' = IF o = "ok" THEN exit_code ELSE 1
           /\ stdout' = IF o = "no_key" THEN Append(stdout, ErrorObj(KEY_ERROR)) ELSE stdout
           /\ stderr' = IF o = "value_error" THEN stderr + 1 ELSE stderr
    /\ UNCHANGED <<argc, api_key_set, max_tokens_ok, repo_path_set, tmp_exists,
                   tmp_created, mkdirs, rm_attempts, rm_failed, exc, steps, failed_at,
                   posts, net, root, files, body, content, clean_content, runUnused>>

\* lines 218-227: the argument test
MainArgs ==
    /\ pc = "main"
    /\ IF args_missing(argc)
       THEN /\ stdout' = Append(stdout, ErrorObj(USAGE_ERROR))
            /\ exit_code' = 1
            /\ pc' = "done"
       ELSE /\ pc' = "start"
            /\ UNCHANGED <<stdout, exit_code>>
    /\ UNCHANGED <<argc, api_key_set, max_tokens_ok, stderr, repo_path_set, tmp_exists,
                   tmp_created, mkdirs, rm_attempts, rm_failed, exc, steps, failed_at,
                   posts, net, root, files, body, content, clean_content, runUnused>>

\* lines 141-153: analyze_repo starts, the two DNS lookups
Start ==
    /\ pc = "start"
    /\ stderr' = stderr + 4
    /\ net' = net + 2
    /\ pc' = "clone"
    /\ UNCHANGED <<argc, api_key_set, max_tokens_ok, stdout, exit_code, repo_path_set,
                   tmp_exists, tmp_created, mkdirs, rm_attempts, rm_failed, exc, steps,
                   failed_at, posts, root, files, body, content, clean_content,
                   runUnused>>

\* lines 33-53 and 154-156: shallow_clone
ShallowClone ==
    /\ pc = "clone"
    /\ steps' = Append(steps, "clone")
    /\ \E o \in {"base_mkdir_fails", "tmp_mkdir_fails", "clone_fails", "cloned"},
          rm_ok \in BOOLEAN :
         \/ /\ o \in {"base_mkdir_fails", "tmp_mkdir_fails"}
            /\ rm_ok
            /\ mkdirs' = IF o = "tmp_mkdir_fails" THEN mkdirs + 1 ELSE mkdirs
            /\ exc' = "OSError"
            /\ failed_at' = "clone"
            /\ pc' = after_clone_failure
            /\ UNCHANGED <<tmp_created, tmp_exists, rm_attempts, rm_failed, net,
                           repo_path_set, root, stderr>>
         \/ /\ o = "clone_fails"
            /\ tmp_created' = TRUE
            /\ mkdirs' = mkdirs + 2
            /\ net' = net + 1
            /\ rm_attempts' = rm_attempts + 1
            /\ tmp_exists' = ~rm_ok
            /\ rm_failed' = ~rm_ok
            /\ exc' = "RuntimeError"
            /\ failed_at' = "clone"
            /\ pc' = after_clone_failure
            /\ UNCHANGED <<repo_path_set, root, stderr>>
         \/ /\ o = "cloned"
            /\ rm_ok
            /\ tmp_created' = TRUE
            /\ mkdirs' = mkdirs + 2
            /\ tmp_exists' = TRUE
            /\ net' = net + 1
            /\ repo_path_set' = TRUE
            /\ root' = tmp_dir_path(RunCwd, TOKEN)
            /\ stderr' = stderr + 1
            /\ pc' = "collect"
            /\ UNCHANGED <<rm_attempts, rm_failed, exc, failed_at>>
    /\ UNCHANGED <<argc, api_key_set, max_tokens_ok, stdout, exit_code, posts,
                   files, body, content, clean_content, runUnused>>

\* lines 159-161: collect_source_files
Collect ==
    /\ pc = "collect"
    /\ steps' = Append(steps, "collect")
    /\ \/ /\ exc' = "OSError"
          /\ failed_at' = "collect"
          /\ pc' = "except"
          /\ UNCHANGED <<files, stderr>>
       \/ /\ \E w \in RunWalks : files' = collect_source_files(root, w)
          /\ stderr' = stderr + 1
          /\ pc' = "build"
          /\ UNCHANGED <<exc, failed_at>>
    /\ UNCHANGED <<argc, api_key_set, max_tokens_ok, stdout, exit_code, repo_path_set,
                   tmp_exists, tmp_created, mkdirs, rm_attempts, rm_failed, posts, net,
                   root, body, content, clean_content, runUnused>>

\* lines 164-183: build_prompt, the payload
Build ==
    /\ pc = "build"
    /\ steps' = Append(steps, "build")
    /\ \/ /\ exc' = "MemoryError"
          /\ failed_at' = "build"
          /\ pc' = "except"
          /\ UNCHANGED <<body, stderr>>
       \/ /\ body' = build_body(files)
          /\ stderr' = stderr + 2
          /\ pc' = "post"
          /\ UNCHANGED <<exc, failed_at>>
    /\ UNCHANGED <<argc, api_key_set, max_tokens_ok, stdout, exit_code, repo_path_set,
                   tmp_exists, tmp_created, mkdirs, rm_attempts, rm_failed, posts, net,
                   root, files, content, clean_content, runUnused>>

\* lines 185-186: the client is opened and the request is sent
Post ==
    /\ pc = "post"
    /\ steps' = Append(steps, "post")
    /\ posts' = posts + 1
    /\ net' = net + 1
    /\ \E o \in {"ReadTimeout", "ConnectError", "response"} :
         IF o = "response"
         THEN pc' = "status" /\ UNCHANGED <<exc, failed_at>>
         ELSE exc' = o /\ failed_at' = "post" /\ pc' = "except"
    /\ UNCHANGED <<argc, api_key_set, max_tokens_ok, stdout, stderr, exit_code,
                   repo_path_set, tmp_exists, tmp_created, mkdirs, rm_attempts, rm_failed,
                   root, files, body, content, clean_content, runUnused>>

\* line 187: response.raise_for_status()
Status ==
    /\ pc = "status"
    /\ \E is_2xx \in BOOLEAN :
         IF is_2xx
         THEN pc' = "decode" /\ UNCHANGED <<exc, failed_at>>
         ELSE exc' = "HTTPStatusError" /\ failed_at' = "status" /\ pc' = "except"
    /\ UNCHANGED <<argc, api_key_set, max_tokens_ok, stdout, stderr, exit_code,
                   repo_path_set, tmp_exists, tmp_created, mkdirs, rm_attempts, rm_failed,
                   steps, posts, net, root, files, body, content, clean_content,
                   runUnused>>

\* lines 188-190: response.json() and result["choices"][0]["message"]["content"]
Decode ==
    /\ pc = "decode"
    /\ \/ /\ \E e \in {"JSONDecodeError", "KeyError", "IndexError", "TypeError"} : exc' = e
          /\ failed_at' = "decode"
          /\ pc' = "except"
          /\ UNCHANGED content
       \/ /\ content' \in RunResponses
          /\ pc' = "print"
          /\ UNCHANGED <<exc, failed_at>>
    /\ UNCHANGED <<argc, api_key_set, max_tokens_ok, stdout, stderr, exit_code,
                   repo_path_set, tmp_exists, tmp_created, mkdirs, rm_attempts, rm_failed,
                   steps, posts, net, root, files, body, clean_content, runUnused>>

\* lines 193-204: the answer is sanitized and printed
PrintAnswer ==
    /\ pc = "print"
    /\ steps' = Append(steps, "print")
    /\ clean_content' = sanitize(content)
    /\ stdout' = Append(stdout, AnswerObj(sanitize(content)))
    /\ stderr' = stderr + 1
    /\ pc' = "close"
    /\ UNCHANGED <<argc, api_key_set, max_tokens_ok, exit_code, repo_path_set,
                   tmp_exists, tmp_created, mkdirs, rm_attempts, rm_failed, exc, failed_at,
                   posts, net, root, files, body, content, runUnused>>

\* line 185: the "async with" block is left and the client is closed; an
\* exception raised there is raised inside the try block
CloseClient ==
    /\ pc = "close"
    /\ \E closed \in BOOLEAN :
         IF closed
         THEN pc' = "finally" /\ UNCHANGED <<exc, failed_at>>
         ELSE exc' = "CloseError" /\ failed_at' = "close" /\ pc' = "except"
    /\ UNCHANGED <<argc, api_key_set, max_tokens_ok, stdout, stderr, exit_code,
                   repo_path_set, tmp_exists, tmp_created, mkdirs, rm_attempts, rm_failed,
                   steps, posts, net, root, files, body, content, clean_content,
                   runUnused>>

\* lines 206-211: except Exception
Handler ==
    /\ pc = "except"
    /\ stderr' = stderr + 1
    /\ stdout' = Append(stdout, ErrorObj(exc))
    /\ exc' = "none"
    /\ pc' = "finally"
    /\ UNCHANGED <<argc, api_key_set, max_tokens_ok, exit_code, repo_path_set,
                   tmp_exists, tmp_created, mkdirs, rm_attempts, rm_failed, steps, failed_at,
                   posts, net, root, files, body, content, clean_content, runUnused>>

\* lines 212-216: finally; rmtree(ignore_errors=True) may fail without a sign
Finally ==
    /\ pc = "finally"
    /\ IF finally_removes(repo_path_set, tmp_exists)
       THEN \E rm_ok \in BOOLEAN :
              /\ rm_attempts' = rm_attempts + 1
              /\ tmp_exists' = ~rm_ok
              /\ rm_failed' = (rm_failed \/ ~rm_ok)
              /\ stderr' = stderr + 1
       ELSE UNCHANGED <<rm_attempts, tmp_exists, rm_failed, stderr>>
    /\ pc' = "exit"
    /\ UNCHANGED <<argc, api_key_set, max_tokens_ok, stdout, exit_code, repo_path_set,
                   tmp_created, mkdirs, exc, steps, failed_at, posts, net, root, files, body,
                   content, clean_content, runUnused>>

\* line 227: asyncio.run returns and the interpreter ends
Exit ==
    /\ pc = "exit"
    /\ exit_code' = 0
    /\ pc' = "done"
    /\ UNCHANGED <<argc, api_key_set, max_tokens_ok, stdout, stderr, repo_path_set,
                   tmp_exists, tmp_created, mkdirs, rm_attempts, rm_failed, exc, steps,
                   failed_at, posts, net, root, files, body, content, clean_content,
                   runUnused>>

Next ==
    \/ LoadConfig \/ MainArgs \/ Start \/ ShallowClone \/ Collect \/ Build
    \/ Post \/ Status \/ Decode \/ PrintAnswer \/ CloseClient \/ Handler
    \/ Finally \/ Exit

Spec == RunInit /\ [][Next]_vars

(***************************************************************************)
(* Claims about the sanitizer (SpecSanitize)                               *)
(***************************************************************************)
\* Positions (1-based) of a character in a string
Positions(s, c) == {i \in 1..Len(s) : s[i] = c}

\* A "{" that is followed later by a "}"
HasBracePair(s) ==
    \E i \in Positions(s, "{") : \E j \in Positions(s, "}") : i < j

\* C4: a fenced response holding a "{" followed later by a "}" is printed as
\* exactly the substring from its first "{" through its last "}".
C4_FencedPairExtracted ==
    LET t == strip(content)
    IN  (sanPc = "done" /\ startswith_fence(t) /\ HasBracePair(t))
        => clean_content = SubSeq(t, Min(Positions(t, "{")), Max(Positions(t, "}")))

\* Witness for C4: a fenced object with text after its closing brace was cut
\* down to the object
C4_Witness ==
    /\ sanPc = "done"
    /\ content = <<BQ, BQ, BQ, "{", "}", BQ>>
    /\ clean_content = <<"{", "}">>

\* C5: a fenced response with no "{" followed later by a "}" is passed
\* through unchanged apart from the trimming of surrounding whitespace.
C5_NoPairUnchanged ==
    LET t == strip(content)
    IN  (sanPc = "done" /\ startswith_fence(t) /\ ~HasBracePair(t))
        => clean_content = t

(***************************************************************************)
(* Claims about one invocation (Spec)                                      *)
(***************************************************************************)
\* The process has ended
Ended == pc = "done"

\* The process has ended and analyze_repo ran in it
AnalyzeEnded == Ended /\ steps # <<>>

\* C1: a run of analyze_repo leaves exactly one object on standard output,
\* the answer or one error envelope, whichever step failed.
C1_ExactlyOneObject ==
    AnalyzeEnded => Len(stdout) = 1

\* C2: once the run has ended, the clone directory it created is gone.
C2_CloneDirGone ==
    (Ended /\ tmp_created) => ~tmp_exists

\* C2 as amended: once the run has ended, exactly one removal of the clone
\* directory it created was attempted (by shallow_clone after a failed clone,
\* by the finally block otherwise), and the directory is gone unless that
\* removal failed.
C2_CloneDirRemovedOnce ==
    (Ended /\ tmp_created) =>
        /\ rm_attempts = 1
        /\ (~rm_failed => ~tmp_exists)

\* Witness for C2: a run whose clone succeeded has ended, and the finally
\* block removed the directory
C2_Witness ==
    /\ Ended /\ tmp_created /\ repo_path_set
    /\ rm_attempts = 1 /\ ~rm_failed /\ ~tmp_exists

\* C6: without the API key the process ends at startup, whatever the
\* arguments: exit status 1, the CEREBRAS_API_KEY envelope as the only
\* output, no directory created, no clone, no network operation.
C6_NoKeyFailsAtStartup ==
    (~api_key_set /\ pc # "load") =>
        /\ Ended
        /\ exit_code = 1
        /\ stdout = <<ErrorObj(KEY_ERROR)>>
        /\ mkdirs = 0 /\ ~tmp_created /\ steps = <<>> /\ net = 0 /\ posts = 0

\* The order of the pipeline
Pipeline == <<"clone", "collect", "build", "post", "print">>

\* Number of pipeline steps started when a failure at step s happens
StepsAt(s) ==
    CASE s = "clone" -> 1
      [] s = "collect" -> 2
      [] s = "build" -> 3
      [] s \in {"post", "status", "decode"} -> 4
      [] s = "close" -> 5

\* C7: the steps run in pipeline order, each at most once, with at most one
\* clone and one POST; nothing is started after the first failure; after a
\* failed clone nothing is collected or sent; after a failed HTTP call or
\* status no answer is printed.
C7_LinearNoRetry ==
    /\ Len(steps) <= Len(Pipeline)
    /\ steps = SubSeq(Pipeline, 1, Len(steps))
    /\ posts <= 1
    /\ failed_at # "none" => Len(steps) = StepsAt(failed_at)
    /\ failed_at = "clone" => (files = <<>> /\ posts = 0)
    /\ failed_at \in {"post", "status"} =>
          \A i \in 1..Len(stdout) : stdout[i].kind # "answer"

\* Witness for C7: the run ended after the status check failed: four steps
\* were started, one POST was sent, and only the error envelope was printed
C7_Witness ==
    /\ Ended /\ failed_at = "status"
    /\ steps = <<"clone", "collect", "build", "post">>
    /\ posts = 1
    /\ Len(stdout) = 1 /\ stdout[1].kind = "error"

\* C9: the exit status is non-zero exactly when arguments are missing or the
\* key is unset, each with one error envelope; a failure inside analyze_repo
\* is reported as an error envelope and the process ends with status 0.
C9_ExitStatus ==
    Ended =>
        /\ (exit_code # 0) <=> (argc < 3 \/ ~api_key_set)
        /\ exit_code # 0 => (Len(stdout) = 1 /\ stdout[1].kind = "error")
        /\ failed_at # "none" =>
              (exit_code = 0 /\ stdout[Len(stdout)].kind = "error")

(***************************************************************************)
(* Claims about build_prompt (SpecPrompt)                                  *)
(***************************************************************************)
\* The candidates that can be read as text, in collector order
RECURSIVE readable_idx(_, _)
readable_idx(fs, i) ==
    IF i > Len(fs) THEN <<>>
    ELSE IF fs[i].readable THEN <<i>> \o readable_idx(fs, i + 1)
    ELSE readable_idx(fs, i + 1)

\* Length of the whole block of candidate i: header line, capped content, newline
whole_block_len(fs, i, rel) ==
    17 + str_len(rel) + (IF fs[i].clen < 3000 THEN fs[i].clen ELSE 3000)

\* C3: the body never exceeds 30000 characters; its blocks are those of a
\* prefix of the readable candidates in collector order, each one whole; and
\* the first readable candidate left out is one whose block did not fit.
C3_BudgetWholePrefix ==
    promptPc = "done" =>
        LET r == readable_idx(files, 1)
        IN  /\ body_len(body) <= 30000
            /\ Len(body) <= Len(r)
            /\ \A j \in 1..Len(body) :
                 /\ body[j].idx = r[j]
                 /\ body[j].len = whole_block_len(files, r[j], body[j].rel)
            /\ Len(body) < Len(r) =>
                 LET nxt == r[Len(body) + 1]
                 IN  body_len(body)
                        + whole_block_len(files, nxt, display_path(files[nxt].parts))
                     > 30000

\* Witness for C3: the body is filled to exactly the budget and a readable
\* candidate after it was left out
C3_Witness ==
    /\ promptPc = "done"
    /\ body_len(body) = 30000
    /\ Len(body) < Len(readable_idx(files, 1))

\* C10: every block's display path is its file's path relative to the clone
\* directory, whatever the working directory is called.
C10_DisplayPathRelative ==
    promptPc = "done" =>
        \A j \in 1..Len(body) :
            body[j].rel = SubSeq(files[body[j].idx].parts, Len(root) + 1,
                                 Len(files[body[j].idx].parts))

(***************************************************************************)
(* Claims about collect_source_files (SpecCollect)                         *)
(***************************************************************************)
\* The directory names the collector must keep out
C8_Denylist == {N_node_modules, N_git, N_dist, N_build, N_venv, N_pycache}

\* C8: no collected path has a denylisted component, and every collected
\* path is a regular file (directly or through a symbolic link) whose
\* extension, lower-cased, is a recognized one.
C8_CollectedAreSourceFiles ==
    \A i \in 1..Len(files) :
        /\ \A c \in 1..Len(files[i].parts) : files[i].parts[c] \notin C8_Denylist
        /\ files[i].kind \in {"file", "link_to_file"}
        /\ lower(suffix(files[i].parts)) \in
              {E_js, E_ts, E_jsx, E_tsx, E_py, E_java, E_go, E_c, E_cpp}

\* Witness for C8: the walk met a source file under a denylisted directory,
\* and returned a file whose extension is written in upper case
C8_Witness ==
    /\ colPc = "done"
    /\ denied
    /\ \E i \in 1..Len(files) : name(files[i].parts) = N_A_PY

====
